---- MODULE Spec2Model ----
(***************************************************************************)
(* A model of pysensibo's SensiboClient: the five HTTP verb wrappers with  *)
(* their recursive retry, the response classifier _response, and the       *)
(* device-list normalisation of async_get_devices_data.                    *)
(*                                                                         *)
(* One call is in progress at a time (each call of the client owns its     *)
(* parameters and holds no state shared with another call).  Python None   *)
(* and an absent Optional are the empty tuple, a present value v is <<v>>. *)
(* A JSON object is a record; a key the payload omits is a key outside the *)
(* record's DOMAIN.  The two objects whose key order the program reads     *)
(* (acState and remoteCapabilities.modes) are Dict(keys, at): the keys in  *)
(* the order of the document and the record of their values.               *)
(***************************************************************************)
EXTENDS Integers, Sequences, FiniteSets, TLC

VARIABLES
    call,       \* the method in progress, "none" when the client is idle
    pc,         \* "idle", "inflight" (awaiting the session, __init__.py
                \* line 633), "sleeping" (line 640), "done"
    retry,      \* the retry argument of the innermost wrapper frame (line 628)
    requests,   \* HTTP requests sent by the call so far (line 633)
    slept,      \* seconds of asyncio.sleep completed by the call so far
    resp,       \* what the session delivered for the latest request: its
                \* fault or status, and whether its body is JSON (line 635)
    handling,   \* the exceptions the wrapper frames caught at "except
                \* Exception" (line 637), oldest first; empty once a frame
                \* returns a document
    data,       \* the document the wrapper returned (line 58)
    cancelled,  \* the caller has cancelled the call
    outcome     \* what the call gave its caller: Return(v) or Raise(e)

vars == <<call, pc, retry, requests, slept, resp, handling, data, cancelled, outcome>>

----------------------------------------------------------------------------
(* Python values *)

None == <<>>
Some(v) == <<v>>
Val(o) == o[1]

Return(v) == [exc |-> None, value |-> Some(v)]
Raise(e) == [exc |-> Some(e), value |-> None]
Raised(r) == r.exc # None

Has(d, k) == k \in DOMAIN d

Last(s) == s[Len(s)]

Range(s) == {s[i] : i \in DOMAIN s}

----------------------------------------------------------------------------
(* Bounds of the model *)

MaxTemps == 3

MaxDevices == 2

----------------------------------------------------------------------------
(* Constants of the program *)

HTTP_AUTH_FAILED_STATUS_CODES == {401, 403}

MAX_POSSIBLE_STEP == 1000

GetRetry == 3

GetSleep == 7

MutateSleep == 5

----------------------------------------------------------------------------
(* The calls of the client that the model exercises: the five verb         *)
(* wrappers called directly, and async_get_devices_data, which goes        *)
(* through async_get_devices to _get and then normalises the document.     *)

Calls == {"_get", "_put", "_post", "_patch", "_delete", "async_get_devices_data"}

Verb(c) ==
    CASE c = "_get" -> "get"
      [] c = "async_get_devices_data" -> "get"
      [] c = "_put" -> "put"
      [] c = "_post" -> "post"
      [] c = "_patch" -> "patch"
      [] c = "_delete" -> "delete"

(* The retry argument a wrapper starts with: retry: int = 3 for _get,      *)
(* retry: bool = False for the four others.  The variable retry holds an   *)
(* integer throughout: False is written 0 and True 1 (Python's bool is a   *)
(* subclass of int with exactly these values).                             *)
DefaultRetry(c) == IF Verb(c) = "get" THEN GetRetry ELSE 0

(* A variant of the test that lets _get retry once more.                   *)
MayRetryOnceMore(c, r) == IF Verb(c) = "get" THEN r >= 0 ELSE r = 0

(* The test of the except clause: "if retry > 0" in _get, "if retry is     *)
(* False" in _put, _post, _patch and _delete.                              *)
MayRetry(c, r) == IF Verb(c) = "get" THEN r > 0 ELSE r = 0

(* A variant whose recursive call of a mutating wrapper passes False       *)
(* again.                                                                  *)
NextRetryStaysFalse(c, r) == IF Verb(c) = "get" THEN r - 1 ELSE 0

(* The retry argument of the recursive call: retry - 1, or True.           *)
NextRetry(c, r) == IF Verb(c) = "get" THEN r - 1 ELSE 1

(* asyncio.sleep(7) in _get, asyncio.sleep(5) in the others.               *)
Delay(c) == IF Verb(c) = "get" THEN GetSleep ELSE MutateSleep

(* A variant: a bare "except:", which catches every exception.             *)
CatchesEverything(e) == TRUE

(* "except Exception" catches every subclass of Exception.  The module     *)
(* uses the walrus operator, so it runs on Python 3.8 or later, where      *)
(* asyncio.CancelledError derives from BaseException and is not caught.    *)

ExceptException(e) == e # "CancelledError"

----------------------------------------------------------------------------
(* What the session can deliver for one request *)

Statuses == {200, 201, 401, 403, 404, 500}

Faults == {"ClientError"}

OkDoc == [status |-> "success"]

(* SensiboClient._response.  A response is [status, body]; body is None    *)
(* when resp.json() fails, else the parsed document.                       *)
_response(r) ==
    IF r.status \in HTTP_AUTH_FAILED_STATUS_CODES THEN Raise("AuthenticationError")
    ELSE IF r.status # 200 THEN Raise("SensiboError")
    ELSE IF r.body = None THEN Raise("SensiboError")
    ELSE Return(Val(r.body))

----------------------------------------------------------------------------
(* Device records of the vendor's device-list payload *)

Get(d, k) == IF Has(d, k) THEN Some(d[k]) ELSE None

(* d.get(k) of a key whose value the payload may give as null: the value  *)
(* is held as None or <<v>>, a missing key gives None.                     *)
GetOpt(d, k) == IF Has(d, k) THEN d[k] ELSE None

Omit(d, k) == [x \in DOMAIN d \ {k} |-> d[x]]

With(d, k, v) == [x \in DOMAIN d \cup {k} |-> IF x = k THEN v ELSE d[x]]

SeqsUpTo(S, n) == UNION {[1..k -> S] : k \in 0..n}

(* A JSON object whose key order the program reads (list(dict) gives the   *)
(* keys in the order of the document): the keys in that order, and the     *)
(* value at each key.                                                      *)
Dict(keys, at) == [keys |-> keys, at |-> at]

(* The object without key k, and the object with value v at key k (a new   *)
(* key comes last).                                                        *)
Without(d, k) == Dict(SelectSeq(d.keys, LAMBDA x : x # k), Omit(d.at, k))

Put(d, k, v) == Dict(IF Has(d.at, k) THEN d.keys ELSE Append(d.keys, k), With(d.at, k, v))

Ids == {"dev1", "dev2"}

TempValues == {16, 17, 18, 20, 1100}

TempLists == SeqsUpTo(TempValues, MaxTemps)

(* The capability block of one mode, with the temperature table t.         *)
ModeBlock(t) ==
    [temperatures |-> t,
     fanLevels |-> <<"low", "high">>,
     swing |-> <<"stopped", "rangeFull">>]

(* remoteCapabilities with the one mode "heat"; "modes" may be null, so it *)
(* is held as None or <<object>>.                                          *)
Capabilities(t) == [modes |-> Some(Dict(<<"heat">>, [heat |-> ModeBlock(t)]))]

(* A complete record as the vendor sends it: every key present, the        *)
(* nullable blocks null.                                                   *)
BaseDevice(i, s) ==
    [id |-> i,
     macAddress |-> "00:02:00:b6:00:00",
     serial |-> s,
     room |-> [name |-> "Hallway"],
     measurements |-> [temperature |-> 21, humidity |-> 32],
     location |-> [id |-> "loc1", name |-> "Home"],
     autoOffEnabled |-> FALSE,
     autoOffMinutes |-> None,
     antiMoldConfig |-> None,
     acState |-> Dict(<<"on", "mode", "fanLevel", "targetTemperature", "temperatureUnit">>,
                      [on |-> TRUE, mode |-> "heat", fanLevel |-> "high",
                       targetTemperature |-> 17, temperatureUnit |-> "C"]),
     connectionStatus |-> [isAlive |-> TRUE],
     remoteCapabilities |->
         Some(Capabilities([C |-> [isNative |-> TRUE, values |-> <<16, 17, 18, 20>>]])),
     temperatureUnit |-> "C",
     firmwareVersion |-> "SKY30046",
     currentlyAvailableFirmwareVersion |-> "SKY30048",
     firmwareType |-> "esp8266ex",
     productModel |-> "skyv2",
     sensorsCalibration |-> [temperature |-> 1, humidity |-> 0],
     mainMeasurementsSensor |-> None,
     motionSensors |-> None,
     pureBoostConfig |-> None,
     roomIsOccupied |-> None,
     filtersCleaning |-> [shouldCleanFilters |-> FALSE],
     timer |-> None,
     smartMode |-> None,
     schedules |-> <<>>]

TopLevelKeys == DOMAIN BaseDevice("dev1", "s1")

----------------------------------------------------------------------------
(* The normalisation of one device record: the body of the for loop of     *)
(* async_get_devices_data.                                                 *)

EmptyDict == <<>>

(* Python truthiness of an Optional dict or list (None and the empty one   *)
(* are false) and of an Optional string (None and "" are false).           *)
Truthy(o) == o # None /\ DOMAIN Val(o) # {}

TruthyStr(o) == o # None /\ Val(o) # ""

Min(a, b) == IF a < b THEN a ELSE b

(* The keys the loop body reads with dev[...], in the order it reads them: *)
(* a missing one raises KeyError.  temperatureUnit, filtersCleaning and    *)
(* smartMode are read with dev.get(...) only.                              *)
SubscriptedKeys ==
    <<"id", "macAddress", "serial", "room", "measurements", "location",
      "autoOffEnabled", "autoOffMinutes", "antiMoldConfig", "acState",
      "connectionStatus", "remoteCapabilities", "firmwareVersion",
      "firmwareType", "productModel", "sensorsCalibration",
      "mainMeasurementsSensor", "motionSensors", "pureBoostConfig",
      "roomIsOccupied", "currentlyAvailableFirmwareVersion", "timer",
      "schedules">>

MissingKeys(dev) == {k \in Range(SubscriptedKeys) : ~Has(dev, k)}

(* capabilities = dev["remoteCapabilities"] or {} *)
CapabilitiesOf(dev) ==
    IF Truthy(dev.remoteCapabilities) THEN Val(dev.remoteCapabilities) ELSE EmptyDict

(* hvac_modes = list(capabilities.get("modes") or {}), then                *)
(* hvac_modes.append("off").                                               *)
HvacModes(dev) ==
    LET modes == GetOpt(CapabilitiesOf(dev), "modes")
    IN  Append(IF modes # None THEN Val(modes).keys ELSE <<>>, "off")

(* capabilities.get("modes", {}).get(ac_states.get("mode"), {}): a "modes" *)
(* that is present and null has no get, which raises AttributeError.       *)
CurrentCapabilitiesOrError(dev) ==
    LET capabilities == CapabilitiesOf(dev)
        mode == Get(dev.acState.at, "mode")
    IN  IF ~Has(capabilities, "modes") THEN Return(EmptyDict)
        ELSE IF capabilities.modes = None THEN Raise("AttributeError")
        ELSE LET modes == Val(capabilities.modes).at
             IN  Return(IF mode # None /\ Has(modes, Val(mode)) THEN modes[Val(mode)]
                        ELSE EmptyDict)

CurrentCapabilities(dev) == Val(CurrentCapabilitiesOrError(dev).value)

(* dev.get("temperatureUnit") or ac_states.get("temperatureUnit") *)
TemperatureUnitKey(dev) ==
    IF TruthyStr(Get(dev, "temperatureUnit")) THEN Get(dev, "temperatureUnit")
    ELSE Get(dev.acState.at, "temperatureUnit")

(* current_capabilities.get("temperatures", {})                            *)
(*     .get(temperature_unit_key, {}).get("values", [0, 1])                *)
TemperaturesList(dev) ==
    LET current == CurrentCapabilities(dev)
        unit == TemperatureUnitKey(dev)
        temperatures == IF Has(current, "temperatures") THEN current.temperatures
                        ELSE EmptyDict
        table == IF unit # None /\ Has(temperatures, Val(unit))
                 THEN temperatures[Val(unit)] ELSE EmptyDict
    IN  IF Has(table, "values") THEN table.values ELSE <<0, 1>>

(* A variant of the loop that stops one pair early.                        *)
RECURSIVE StepLoopShort(_, _, _)
StepLoopShort(l, i, diff) ==
    IF i > Len(l) - 2 THEN diff
    ELSE StepLoopShort(l, i + 1, Min(diff, l[i + 1] - l[i]))

(* The loop "for i in range(len(temperatures_list) - 1)": i counts from 1  *)
(* here, diff is the running minimum.                                      *)
RECURSIVE StepLoop(_, _, _)
StepLoop(l, i, diff) ==
    IF i > Len(l) - 1 THEN diff
    ELSE StepLoop(l, i + 1, Min(diff, l[i + 1] - l[i]))

(* temperature_step = 0, replaced by the loop's result when the list is    *)
(* not empty.                                                              *)
TemperatureStep(l) ==
    IF l # <<>> THEN StepLoop(l, 1, MAX_POSSIBLE_STEP) ELSE 0

(* class PureAQI(IntEnum): the members by name, with their values.         *)
PureAQI == [GOOD |-> 1, MODERATE |-> 2, BAD |-> 3]

(* The call PureAQI(_pm25): the member whose value is v (written by its    *)
(* name), ValueError when no member has that value.                        *)
PureAQIByValue(v) ==
    IF \E n \in DOMAIN PureAQI : PureAQI[n] = v
    THEN Return(CHOOSE n \in DOMAIN PureAQI : PureAQI[n] = v)
    ELSE Raise("ValueError")

(* A variant that keeps the raw reading for every model.                   *)
Pm25OfAnyModel(dev) == Get(dev.measurements, "pm25")

(* pm25 = None, replaced by measure.get("pm25") when the model is not      *)
(* "pure".                                                                 *)
Pm25(dev) ==
    IF dev.productModel = "pure" THEN None ELSE Get(dev.measurements, "pm25")

(* pm25_pure = None, replaced by PureAQI(_pm25) when the model is "pure"   *)
(* and measure.get("pm25") is not None.                                    *)
Pm25Pure(dev) ==
    LET _pm25 == Get(dev.measurements, "pm25")
    IN  IF dev.productModel = "pure" /\ _pm25 # None
        THEN LET member == PureAQIByValue(Val(_pm25))
             IN  IF Raised(member) THEN member ELSE Return(member.value)
        ELSE Return(None)

(* str.lower() on the strings of the payloads that have a capital letter;  *)
(* every other string of the payloads is its own lower case.               *)
LowerCase ==
    [STOPPED |-> "stopped", rangeFull |-> "rangefull", fixedTop |-> "fixedtop",
     HIGH |-> "high", Low |-> "low", N |-> "n", S |-> "s", fixedLeft |-> "fixedleft",
     On |-> "on", Dim |-> "dim", Wednesday |-> "wednesday", Friday |-> "friday",
     fanLevel |-> "fanlevel", targetTemperature |-> "targettemperature"]

Lower(str) == IF str \in DOMAIN LowerCase THEN LowerCase[str] ELSE str

(* fan_mode, swing_mode, horizontal_swing_mode, light_mode:                *)
(* ac_states.get(key), lowercased when truthy.                             *)
ModeOf(dev, key) ==
    LET mode == Get(dev.acState.at, key)
    IN  IF TruthyStr(mode) THEN Some(Lower(Val(mode))) ELSE mode

(* fan_modes, swing_modes, horizontal_swing_modes, light_modes:            *)
(* current_capabilities.get(key), each entry lowercased when the list is   *)
(* truthy.                                                                 *)
ModesOf(dev, key) ==
    LET modes == Get(CurrentCapabilities(dev), key)
    IN  IF Truthy(modes) THEN Some([i \in DOMAIN Val(modes) |-> Lower(Val(modes)[i])])
        ELSE modes

(* A variant whose map gives the lowercased entry back.                    *)
ModesTranslatedLowered(dev, key) ==
    LET modes == Get(CurrentCapabilities(dev), key)
    IN  IF Truthy(modes)
        THEN Some([k \in {Lower(m) : m \in Range(Val(modes))} |-> k])
        ELSE None

(* *_modes_translated = None, replaced when the list is truthy by          *)
(* {m.lower(): m for m in modes}: of the entries with one lower case the   *)
(* last is kept.                                                           *)
ModesTranslated(dev, key) ==
    LET modes == Get(CurrentCapabilities(dev), key)
    IN  IF Truthy(modes)
        THEN LET l == Val(modes)
                 last(k) == CHOOSE i \in DOMAIN l :
                                /\ Lower(l[i]) = k
                                /\ \A j \in DOMAIN l : Lower(l[j]) = k => j <= i
             IN  Some([k \in {Lower(m) : m \in Range(l)} |-> l[last(k)]])
        ELSE None

(* active_features = list(ac_states): the keys in the order of the         *)
(* document.                                                               *)
ActiveFeatures(dev) == dev.acState.keys

(* The two formats the loop body parses timestamps with.                   *)
FormatZ == "%Y-%m-%dT%H:%M:%SZ"

FormatPlain == "%Y-%m-%dT%H:%M:%S"

(* The timestamp strings of the payloads: the format each one matches and  *)
(* the date and time it denotes.                                           *)
TimeStrings ==
    [str \in {"2022-03-12T15:24:26Z", "2022-05-17T18:41:05", "2022-05-17T18:41:05Z"} |->
        IF str = "2022-03-12T15:24:26Z"
        THEN [format |-> FormatZ, fields |-> <<2022, 3, 12, 15, 24, 26>>]
        ELSE IF str = "2022-05-17T18:41:05"
        THEN [format |-> FormatPlain, fields |-> <<2022, 5, 17, 18, 41, 5>>]
        ELSE [format |-> FormatZ, fields |-> <<2022, 5, 17, 18, 41, 5>>]]

(* datetime.strptime(str, format).replace(tzinfo=timezone.utc): ValueError *)
(* when the string does not match the format.                              *)
Strptime(str, format) ==
    IF str \in DOMAIN TimeStrings /\ TimeStrings[str].format = format
    THEN Return([utc |-> TimeStrings[str].fields])
    ELSE Raise("ValueError")

(* value if test else None, for a value whose computation may raise.       *)
WhenTruthy(str, format) ==
    IF TruthyStr(str)
    THEN LET t == Strptime(Val(str), format)
         IN  IF Raised(t) THEN t ELSE Return(t.value)
    ELSE Return(None)

(* filters = dev.get("filtersCleaning", {}) *)
Filters(dev) == IF Has(dev, "filtersCleaning") THEN dev.filtersCleaning ELSE EmptyDict

(* filter_last_reset, from filters.get("lastFiltersCleanTime") or {} and   *)
(* its "time".                                                             *)
FilterLastReset(dev) ==
    LET clean_time == IF Truthy(GetOpt(Filters(dev), "lastFiltersCleanTime"))
                      THEN Val(Filters(dev).lastFiltersCleanTime) ELSE EmptyDict
        clean_time_str == GetOpt(clean_time, "time")
    IN  WhenTruthy(clean_time_str, FormatZ)

(* timer = dev["timer"] if dev["timer"] else {} *)
Timer(dev) == IF Truthy(dev.timer) THEN Val(dev.timer) ELSE EmptyDict

(* A variant that fills timer_on for every model.                          *)
TimerOnOfAnyModel(dev) ==
    Some(IF Has(Timer(dev), "isEnabled") THEN Timer(dev).isEnabled ELSE FALSE)

(* timer_on = None, replaced by timer.get("isEnabled", False) when the     *)
(* model is not "pure".                                                    *)
TimerOn(dev) ==
    IF dev.productModel # "pure"
    THEN Some(IF Has(Timer(dev), "isEnabled") THEN Timer(dev).isEnabled ELSE FALSE)
    ELSE None

(* timer_id *)
TimerId(dev) == IF dev.productModel # "pure" THEN Get(Timer(dev), "id") ELSE None

(* timer_state_on: timer_state.get("on") when timer.get("acState") is      *)
(* truthy.                                                                 *)
TimerStateOn(dev) ==
    LET timer_state == GetOpt(Timer(dev), "acState")
    IN  IF dev.productModel # "pure" /\ Truthy(timer_state)
        THEN Get(Val(timer_state), "on") ELSE None

(* timer_time *)
TimerTime(dev) ==
    IF dev.productModel # "pure"
    THEN WhenTruthy(GetOpt(Timer(dev), "targetTime"), FormatPlain)
    ELSE Return(None)

(* smart = dev.get("smartMode") or {} *)
Smart(dev) == IF Truthy(GetOpt(dev, "smartMode")) THEN Val(dev.smartMode) ELSE EmptyDict

(* smart_on *)
SmartOn(dev) ==
    IF dev.productModel # "pure"
    THEN Some(IF Has(Smart(dev), "enabled") THEN Smart(dev).enabled ELSE FALSE)
    ELSE None

(* pure_conf = dev["pureBoostConfig"] if dev["pureBoostConfig"] else {} *)
PureConf(dev) ==
    IF Truthy(dev.pureBoostConfig) THEN Val(dev.pureBoostConfig) ELSE EmptyDict

(* pure_conf.get(k, False) for the "pure" model, None for the others.      *)
PureFlag(dev, k) ==
    IF dev.productModel = "pure"
    THEN Some(IF Has(PureConf(dev), k) THEN PureConf(dev)[k] ELSE FALSE)
    ELSE None

(* pure_sensitivity = pure_conf.get("sensitivity", "n").lower() *)
PureSensitivity(dev) ==
    IF dev.productModel = "pure"
    THEN Some(Lower(IF Has(PureConf(dev), "sensitivity") THEN PureConf(dev).sensitivity
                    ELSE "n"))
    ELSE None

(* The keys a schedule is read by with schedule[...], after "nextTime",    *)
(* in the order of lines 343-357.                                          *)
ScheduleKeys == <<"acState", "recurringDays", "id", "isEnabled", "name", "targetTimeLocal">>

(* The control-state keys whose value is a string.                         *)
StringValued == {"mode", "fanLevel", "swing", "horizontalSwing", "light", "temperatureUnit"}

(* new_state_full: {key.lower(): value.lower() if isinstance(value, str)   *)
(* else value}.                                                            *)
LowerState(state) ==
    [k \in {Lower(key) : key \in DOMAIN state} |->
        LET key == CHOOSE key \in DOMAIN state : Lower(key) = k
        IN  IF key \in StringValued THEN Lower(state[key]) ELSE state[key]]

(* One pass of the loop over schedule_list (lines 339-359): KeyError when  *)
(* "nextTime" is missing, TypeError of strptime when it is null,           *)
(* ValueError when it does not match the format, KeyError of a later       *)
(* schedule[...], else the Schedules object.                               *)
Schedule(schedule) ==
    IF ~Has(schedule, "nextTime") THEN Raise("KeyError")
    ELSE IF schedule.nextTime = None THEN Raise("TypeError")
    ELSE IF Raised(Strptime(Val(schedule.nextTime), FormatPlain))
    THEN Strptime(Val(schedule.nextTime), FormatPlain)
    ELSE IF \E i \in DOMAIN ScheduleKeys : ~Has(schedule, ScheduleKeys[i])
    THEN Raise("KeyError")
    ELSE Return([id |-> schedule.id,
                 enabled |-> schedule.isEnabled,
                 name |-> schedule.name,
                 state_on |-> Get(schedule.acState, "on"),
                 state_full |-> LowerState(schedule.acState),
                 days |-> [i \in DOMAIN schedule.recurringDays |->
                              Lower(schedule.recurringDays[i])],
                 time |-> schedule.targetTimeLocal,
                 next_utc |-> Val(Strptime(Val(schedule.nextTime), FormatPlain).value)])

(* for schedule in schedule_list: schedules[schedule["id"]] = Schedules(...) *)
RECURSIVE BuildSchedules(_, _, _)
BuildSchedules(schedule_list, i, schedules) ==
    IF i > Len(schedule_list) THEN Return(schedules)
    ELSE LET built == Schedule(schedule_list[i])
         IN  IF Raised(built) THEN built
             ELSE BuildSchedules(schedule_list, i + 1,
                                 With(schedules, schedule_list[i].id, Val(built.value)))

(* schedules = {}, filled "if schedule_list".                              *)
SchedulesOf(dev) == BuildSchedules(dev.schedules, 1, EmptyDict)

(* The SensiboDevice the loop body builds from a record that has every     *)
(* subscripted key.  Optional fields are None or <<v>>.                    *)
SensiboDevice(dev) ==
    LET measure == dev.measurements
        ac_states == dev.acState.at
        anti_mold == dev.antiMoldConfig
        hvac_mode == Get(ac_states, "mode")
        filters == Filters(dev)
        temperatures_list == TemperaturesList(dev)
    IN  [id |-> dev.id,
         mac |-> dev.macAddress,
         serial |-> dev.serial,
         name |-> dev.room.name,
         temp |-> Get(measure, "temperature"),
         humidity |-> Get(measure, "humidity"),
         location_id |-> dev.location.id,
         location_name |-> dev.location.name,
         auto_off |-> dev.autoOffEnabled,
         auto_off_minutes |-> dev.autoOffMinutes,
         anti_mold_running |->
             IF Truthy(anti_mold) THEN Get(Val(anti_mold), "anti_mold_running") ELSE None,
         anti_mold_enabled |->
             IF Truthy(anti_mold) THEN Get(Val(anti_mold), "anti_mold_running") ELSE None,
         anti_mold_fan_time |->
             IF Truthy(anti_mold) THEN Get(Val(anti_mold), "fan_time") ELSE None,
         target_temp |-> Get(ac_states, "targetTemperature"),
         hvac_mode |-> hvac_mode,
         device_on |-> Get(ac_states, "on"),
         available |-> IF Has(dev.connectionStatus, "isAlive")
                       THEN dev.connectionStatus.isAlive ELSE TRUE,
         hvac_modes |-> HvacModes(dev),
         state |-> IF TruthyStr(hvac_mode) THEN Val(hvac_mode) ELSE "off",
         fan_mode |-> ModeOf(dev, "fanLevel"),
         fan_modes |-> ModesOf(dev, "fanLevels"),
         fan_modes_translated |-> ModesTranslated(dev, "fanLevels"),
         swing_mode |-> ModeOf(dev, "swing"),
         swing_modes |-> ModesOf(dev, "swing"),
         swing_modes_translated |-> ModesTranslated(dev, "swing"),
         horizontal_swing_mode |-> ModeOf(dev, "horizontalSwing"),
         horizontal_swing_modes |-> ModesOf(dev, "horizontalSwing"),
         horizontal_swing_modes_translated |-> ModesTranslated(dev, "horizontalSwing"),
         light_mode |-> ModeOf(dev, "light"),
         light_modes |-> ModesOf(dev, "light"),
         light_modes_translated |-> ModesTranslated(dev, "light"),
         active_features |-> ActiveFeatures(dev),
         temp_unit |-> TemperatureUnitKey(dev),
         temp_list |-> temperatures_list,
         temp_step |-> TemperatureStep(temperatures_list),
         fw_ver |-> dev.firmwareVersion,
         fw_ver_available |-> Get(dev, "currentlyAvailableFirmwareVersion"),
         fw_type |-> dev.firmwareType,
         model |-> dev.productModel,
         calibration_temp |-> Get(dev.sensorsCalibration, "temperature"),
         calibration_hum |-> Get(dev.sensorsCalibration, "humidity"),
         full_capabilities |-> CapabilitiesOf(dev),
         pure_conf |-> PureConf(dev),
         room_occupied |-> dev.roomIsOccupied,
         update_available |->
             dev.firmwareVersion # dev.currentlyAvailableFirmwareVersion,
         filter_clean |-> IF Has(filters, "shouldCleanFilters")
                          THEN filters.shouldCleanFilters ELSE FALSE,
         pm25 |-> Pm25(dev),
         pm25_pure |-> Val(Pm25Pure(dev).value),
         pure_boost_enabled |-> PureFlag(dev, "enabled"),
         pure_sensitivity |-> PureSensitivity(dev),
         pure_ac_integration |-> PureFlag(dev, "ac_integration"),
         pure_geo_integration |-> PureFlag(dev, "geo_integration"),
         pure_measure_integration |-> PureFlag(dev, "measurements_integration"),
         pure_prime_integration |-> PureFlag(dev, "prime_integration"),
         filter_last_reset |-> Val(FilterLastReset(dev).value),
         timer_on |-> TimerOn(dev),
         timer_id |-> TimerId(dev),
         timer_state_on |-> TimerStateOn(dev),
         timer_time |-> Val(TimerTime(dev).value),
         smart_on |-> SmartOn(dev),
         schedules |-> Val(SchedulesOf(dev).value)]

(* The subscripted keys from..to of the reading order that dev lacks.      *)
MissingAmong(dev, from, to) ==
    {k \in {SubscriptedKeys[i] : i \in from..to} : ~Has(dev, k)}

(* One pass of the loop body, in the order of its lines: KeyError at the   *)
(* first dev[...] whose key the record lacks (lines 68-109),               *)
(* AttributeError of a null "modes" (line 132), KeyError of dev[...]       *)
(* (lines 199-239), ValueError of PureAQI (line 263), KeyError of dev[...] *)
(* (lines 268-270), ValueError of strptime (line 279), KeyError of         *)
(* dev["timer"] (line 287), ValueError of strptime (line 300), KeyError of *)
(* dev["schedules"] (line 335), the exception of a schedule (lines         *)
(* 339-357), else the device.                                              *)
Normalize(dev) ==
    IF MissingAmong(dev, 1, 12) # {} THEN Raise("KeyError")
    ELSE IF Raised(CurrentCapabilitiesOrError(dev)) THEN CurrentCapabilitiesOrError(dev)
    ELSE IF MissingAmong(dev, 13, 19) # {} THEN Raise("KeyError")
    ELSE IF Raised(Pm25Pure(dev)) THEN Pm25Pure(dev)
    ELSE IF MissingAmong(dev, 20, 21) # {} THEN Raise("KeyError")
    ELSE IF Raised(FilterLastReset(dev)) THEN FilterLastReset(dev)
    ELSE IF MissingAmong(dev, 22, 22) # {} THEN Raise("KeyError")
    ELSE IF Raised(TimerTime(dev)) THEN TimerTime(dev)
    ELSE IF MissingAmong(dev, 23, 23) # {} THEN Raise("KeyError")
    ELSE IF Raised(SchedulesOf(dev)) THEN SchedulesOf(dev)
    ELSE Return(SensiboDevice(dev))

(* The variant "device_data.setdefault(unique_id, ...)": the first record  *)
(* of an id wins.                                                          *)
StoreFirst(device_data, unique_id, device) ==
    IF Has(device_data, unique_id) THEN device_data
    ELSE With(device_data, unique_id, device)

(* device_data[unique_id] = SensiboDevice(...) *)
Store(device_data, unique_id, device) == With(device_data, unique_id, device)

(* A variant of the loop that leaves out a record that fails and goes on.  *)
RECURSIVE ParseDevicesSkipping(_, _, _)
ParseDevicesSkipping(devices, i, device_data) ==
    IF i > Len(devices) THEN Return(device_data)
    ELSE LET n == Normalize(devices[i])
         IN  ParseDevicesSkipping(devices, i + 1,
                                  IF Raised(n) THEN device_data
                                  ELSE Store(device_data, devices[i].id, Val(n.value)))

(* for dev in devices: ... ; the first record that fails ends the loop     *)
(* with its exception.                                                     *)
RECURSIVE ParseDevices(_, _, _)
ParseDevices(devices, i, device_data) ==
    IF i > Len(devices) THEN Return(device_data)
    ELSE LET n == Normalize(devices[i])
         IN  IF Raised(n) THEN n
             ELSE ParseDevices(devices, i + 1,
                               Store(device_data, devices[i].id, Val(n.value)))

(* The variant without the "result" test: a document without the key is    *)
(* read as an empty list.                                                  *)
DevicesDataNoTest(doc) ==
    LET devices == IF Has(doc, "result") THEN doc.result ELSE <<>>
        r == ParseDevices(devices, 1, EmptyDict)
    IN  IF Raised(r) THEN r ELSE Return([raw |-> doc, parsed |-> Val(r.value)])

(* async_get_devices_data after "data = await self.async_get_devices()".   *)
DevicesData(doc) ==
    IF ~Has(doc, "result") THEN Raise("SensiboError")
    ELSE LET r == ParseDevices(doc.result, 1, EmptyDict)
         IN  IF Raised(r) THEN r ELSE Return([raw |-> doc, parsed |-> Val(r.value)])

----------------------------------------------------------------------------
(* The payloads the vendor may answer with *)

Base == BaseDevice("dev1", "s1")

WithTable(t) == With(Base, "remoteCapabilities", Some(Capabilities(t)))

(* Records that lack one top-level key.                                    *)
OmittingOne == {Omit(Base, k) : k \in TopLevelKeys}

(* Records whose active mode has the temperature list l for unit C.        *)
WithTemperatures == {WithTable([C |-> [isNative |-> TRUE, values |-> l]]) : l \in TempLists}

(* Records whose active mode has no temperature list for the resolved      *)
(* unit, and records that resolve the unit from the control state.         *)
OtherShapes ==
    {With(Base, "remoteCapabilities", None),
     With(Base, "remoteCapabilities",
          Some([modes |-> Some(Dict(<<"heat">>,
                                    [heat |-> Omit(ModeBlock(EmptyDict), "temperatures")]))])),
     WithTable([F |-> [isNative |-> FALSE, values |-> <<61, 63>>]]),
     WithTable([C |-> [isNative |-> TRUE]]),
     With(Base, "acState", Without(Base.acState, "mode")),
     With(Base, "acState", Put(Base.acState, "mode", "cool")),
     Omit(With(Base, "acState", Without(Base.acState, "temperatureUnit")), "temperatureUnit"),
     Omit(WithTable([C |-> [isNative |-> TRUE, values |-> <<18, 20>>]]), "temperatureUnit"),
     With(Base, "productModel", "pure")}

(* Records of the "pure" model and of another model, with a PM2.5 reading  *)
(* that is the value of an air-quality member or is not.                   *)
Pm25Values == {1, 2, 3, 4}

WithPm25 ==
    {With(With(Base, "productModel", m), "measurements", With(Base.measurements, "pm25", v))
         : m \in {"pure", "skyv2"}, v \in Pm25Values}

(* Records that list no mode (remoteCapabilities is an empty object, or    *)
(* its "modes" is null or empty; the null remoteCapabilities is among      *)
(* OtherShapes) and records that list two modes in either order.           *)
BaseTable == [C |-> [isNative |-> TRUE, values |-> <<16, 17, 18, 20>>]]

TwoModes == [heat |-> ModeBlock(BaseTable), cool |-> ModeBlock(BaseTable)]

ModesValues ==
    {None, Some(Dict(<<>>, EmptyDict)), Some(Dict(<<"heat", "cool">>, TwoModes)),
     Some(Dict(<<"cool", "heat">>, TwoModes))}

WithModes ==
    {With(Base, "remoteCapabilities", Some(EmptyDict))}
        \cup {With(Base, "remoteCapabilities", Some([modes |-> m])) : m \in ModesValues}

(* A mode block that lists options for all four fields in the vendor's     *)
(* casing.                                                                 *)
CasedBlock ==
    [temperatures |-> BaseTable,
     fanLevels |-> <<"Low", "HIGH">>,
     swing |-> <<"STOPPED", "rangeFull">>,
     horizontalSwing |-> <<"stopped", "fixedLeft">>,
     light |-> <<"On", "Dim", "off">>]

CasedCapabilities == Some([modes |-> Some(Dict(<<"heat">>, [heat |-> CasedBlock]))])

(* The control states that hold a value for one of the four fields, over   *)
(* capabilities that list options for the field and over the base          *)
(* capabilities, whose mode lists fan levels and swing options only.       *)
CasedStates ==
    {Put(Base.acState, "swing", "STOPPED"), Put(Base.acState, "swing", "rangeFull"),
     Put(Base.acState, "fanLevel", "HIGH"), Put(Base.acState, "horizontalSwing", "fixedLeft"),
     Put(Base.acState, "light", "On")}

WithCasing ==
    {With(With(Base, "acState", st), "remoteCapabilities", c)
         : st \in CasedStates, c \in {CasedCapabilities, Base.remoteCapabilities}}

(* The base control state with its keys in two other orders, the second   *)
(* the sorted one.                                                         *)
KeyOrders ==
    {<<"temperatureUnit", "targetTemperature", "on", "mode", "fanLevel">>,
     <<"fanLevel", "mode", "on", "targetTemperature", "temperatureUnit">>}

WithKeyOrder == {With(Base, "acState", Dict(keys, Base.acState.at)) : keys \in KeyOrders}

FullSchedule ==
    [id |-> "sch1", isEnabled |-> TRUE, name |-> None,
     acState |-> [on |-> TRUE, mode |-> "cool", fanLevel |-> "HIGH", targetTemperature |-> 21],
     recurringDays |-> <<"Wednesday", "Friday">>, targetTimeLocal |-> "17:40",
     nextTime |-> Some("2022-05-17T18:41:05")]

(* Schedule lists: one full schedule; one without "nextTime" or with a     *)
(* null one; a full one before one without "nextTime"; one without its     *)
(* name.                                                                   *)
ScheduleLists ==
    {<<FullSchedule>>, <<Omit(FullSchedule, "nextTime")>>,
     <<With(FullSchedule, "nextTime", None)>>,
     <<FullSchedule, Omit(With(FullSchedule, "id", "sch2"), "nextTime")>>,
     <<FullSchedule, With(FullSchedule, "id", "sch2")>>,
     <<Omit(FullSchedule, "name")>>}

WithSchedules == {With(Base, "schedules", l) : l \in ScheduleLists}

(* filtersCleaning with a last clean time, with a null one, with one that  *)
(* has no "time", and with a time in the format without "Z".               *)
FiltersValues ==
    {[shouldCleanFilters |-> TRUE,
      lastFiltersCleanTime |-> Some([time |-> Some("2022-03-12T15:24:26Z")])],
     [shouldCleanFilters |-> FALSE, lastFiltersCleanTime |-> None],
     [shouldCleanFilters |-> FALSE, lastFiltersCleanTime |-> Some(EmptyDict)],
     [shouldCleanFilters |-> FALSE, lastFiltersCleanTime |-> Some([time |-> None])],
     [shouldCleanFilters |-> FALSE,
      lastFiltersCleanTime |-> Some([time |-> Some("2022-05-17T18:41:05")])]}

WithFilters == {With(Base, "filtersCleaning", f) : f \in FiltersValues}

(* Records with an antiMoldConfig whose two flags agree or differ.         *)
WithAntiMold ==
    {With(Base, "antiMoldConfig",
          Some([enabled |-> e, anti_mold_running |-> r, fan_time |-> 30]))
         : e \in BOOLEAN, r \in BOOLEAN}

(* The base record as each of two models.                                  *)
OfModel == {With(Base, "productModel", m) : m \in {"pure", "skyv2"}}

FullTimer ==
    [id |-> "t1", isEnabled |-> TRUE, acState |-> Some([on |-> TRUE, mode |-> "cool"]),
     targetTime |-> Some("2022-05-17T18:41:05")]

(* A timer with every key, without its flag, without its control state,    *)
(* without its target time or with a null one, and with a target time      *)
(* that is not in the format of line 300.                                  *)
Timers ==
    {FullTimer, Omit(FullTimer, "isEnabled"), Omit(FullTimer, "acState"),
     Omit(FullTimer, "targetTime"), With(FullTimer, "targetTime", None),
     With(FullTimer, "targetTime", Some("2022-05-17T18:41:05Z"))}

WithTimer == {With(d, "timer", Some(t)) : d \in OfModel, t \in Timers}

FullSmart == [enabled |-> TRUE, type |-> "temperature"]

WithSmart ==
    {With(d, "smartMode", Some(sm)) : d \in OfModel, sm \in {FullSmart, Omit(FullSmart, "enabled")}}

FullPureBoost ==
    [enabled |-> TRUE, sensitivity |-> "N", ac_integration |-> FALSE,
     geo_integration |-> FALSE, measurements_integration |-> TRUE,
     prime_integration |-> FALSE]

WithPureBoost ==
    {With(d, "pureBoostConfig", Some(pb))
         : d \in OfModel, pb \in {FullPureBoost, [enabled |-> TRUE]}}

SingleDevices ==
    OmittingOne \cup WithTemperatures \cup OtherShapes \cup WithPm25 \cup WithTimer
        \cup WithSmart \cup WithPureBoost \cup WithModes \cup WithCasing
        \cup WithKeyOrder \cup WithSchedules \cup WithFilters
        \cup WithAntiMold

(* The records of the payloads that list several devices.                  *)
SmallDevices ==
    {BaseDevice(i, s) : i \in Ids, s \in {"s1", "s2"}}
        \cup {Omit(Base, "productModel"), Omit(BaseDevice("dev2", "s2"), "id"),
              Omit(BaseDevice("dev2", "s1"), "macAddress")}

DeviceLists == {<<d>> : d \in SingleDevices} \cup SeqsUpTo(SmallDevices, MaxDevices)

DeviceDocs == {OkDoc} \cup {[status |-> "success", result |-> l] : l \in DeviceLists}

Documents(c) ==
    IF c = "async_get_devices_data" THEN DeviceDocs
    ELSE {OkDoc, [status |-> "success", result |-> <<>>]}

(* A 200 carries any document of the endpoint or a body that is not JSON;  *)
(* another status carries a JSON body or one that is not JSON.             *)
Bodies(c, status) ==
    IF status = 200 THEN {None} \cup {Some(d) : d \in Documents(c)}
    ELSE {None, Some(OkDoc)}

(* The session raises (a connection error, a timeout: subclasses of        *)
(* Exception) or delivers a response.                                      *)
TransportResults(c) ==
    {[fault |-> Some(f), status |-> 0, body |-> None] : f \in Faults}
        \cup UNION {{[fault |-> None, status |-> st, body |-> b] : b \in Bodies(c, st)}
                        : st \in Statuses}

(* What the state keeps of a transport result.                             *)
Summary(t) == [fault |-> t.fault, status |-> t.status, json |-> t.body # None]

(* The try block of a wrapper: "async with self._session.<verb>(...) as    *)
(* resp: return await self._response(resp)".                               *)
Try(t) == IF t.fault # None THEN Raise(Val(t.fault)) ELSE _response(t)

----------------------------------------------------------------------------
(* The state machine *)

Init ==
    /\ call = "none"
    /\ pc = "idle"
    /\ retry = 0
    /\ requests = 0
    /\ slept = 0
    /\ resp = None
    /\ handling = <<>>
    /\ data = None
    /\ cancelled = FALSE
    /\ outcome = None

(* The caller awaits method c: the outermost wrapper frame sends the first *)
(* request.                                                                *)
Start(c) ==
    /\ pc = "idle"
    /\ call' = c
    /\ pc' = "inflight"
    /\ retry' = DefaultRetry(c)
    /\ requests' = 1
    /\ UNCHANGED <<slept, resp, handling, data, cancelled, outcome>>

(* "except Exception:" of the frame whose try block raised e.  A caught    *)
(* exception is retried after a sleep when the retry argument allows it    *)
(* and re-raised by the bare "raise" otherwise; one that is not caught     *)
(* leaves every frame.                                                     *)
Except(e) ==
    /\ IF ExceptException(e)
       THEN /\ handling' = Append(handling, e)
            /\ IF MayRetry(call, retry)
               THEN pc' = "sleeping" /\ outcome' = outcome
               ELSE pc' = "done" /\ outcome' = Raise(e)
       ELSE /\ handling' = handling
            /\ pc' = "done"
            /\ outcome' = Raise(e)
    /\ UNCHANGED <<call, retry, requests, slept, data>>

(* The session answers the request in flight.  A document returned by      *)
(* _response is returned through every wrapper frame;                      *)
(* async_get_devices_data then normalises it.                              *)
Respond ==
    /\ pc = "inflight"
    /\ \E t \in TransportResults(call) :
         LET r == Try(t)
         IN  /\ resp' = Some(Summary(t))
             /\ cancelled' = cancelled
             /\ IF Raised(r) THEN Except(Val(r.exc))
                ELSE /\ handling' = <<>>
                     /\ data' = r.value
                     /\ pc' = "done"
                     /\ outcome' = IF call = "async_get_devices_data"
                                   THEN DevicesData(Val(r.value)) ELSE r
                     /\ UNCHANGED <<call, retry, requests, slept>>

(* asyncio.sleep returns: the frame calls the wrapper again with the next  *)
(* retry argument, which sends a new request.                              *)
WakeUp ==
    /\ pc = "sleeping"
    /\ slept' = slept + Delay(call)
    /\ retry' = NextRetry(call, retry)
    /\ requests' = requests + 1
    /\ resp' = None
    /\ pc' = "inflight"
    /\ UNCHANGED <<call, handling, data, cancelled, outcome>>

(* The caller cancels the pending call: CancelledError is raised at the    *)
(* await the call is suspended on, in the try block when a request is in   *)
(* flight, in the except block when the call sleeps.                       *)
Cancel ==
    /\ pc \in {"inflight", "sleeping"}
    /\ cancelled' = TRUE
    /\ resp' = resp
    /\ IF pc = "inflight" THEN Except("CancelledError")
       ELSE /\ pc' = "done"
            /\ outcome' = Raise("CancelledError")
            /\ UNCHANGED <<call, retry, requests, slept, handling, data>>

(* The caller has the outcome; the client keeps nothing of the call.       *)
Finish ==
    /\ pc = "done"
    /\ call' = "none"
    /\ pc' = "idle"
    /\ retry' = 0
    /\ requests' = 0
    /\ slept' = 0
    /\ resp' = None
    /\ handling' = <<>>
    /\ data' = None
    /\ cancelled' = FALSE
    /\ outcome' = None

Next ==
    \/ \E c \in Calls : Start(c)
    \/ Respond
    \/ WakeUp
    \/ Cancel
    \/ Finish

Spec == Init /\ [][Next]_vars

(* The verb wrappers alone, called directly.  Every request ends (the      *)
(* session has a total timeout) and every sleep ends.                      *)
Wrappers == Calls \ {"async_get_devices_data"}

WrapperNext ==
    \/ \E c \in Wrappers : Start(c)
    \/ Respond
    \/ WakeUp
    \/ Cancel
    \/ Finish

FairSpec == Init /\ [][WrapperNext]_vars /\ WF_vars(Respond) /\ WF_vars(WakeUp)

----------------------------------------------------------------------------
(* Vocabulary of the properties *)

IsGet == call \in {"_get", "async_get_devices_data"}

AuthFailed == "AuthenticationError" \in Range(handling)

Succeeded200 == [fault |-> None, status |-> 200, json |-> TRUE]

(* The latest request was answered with a response (not a transport        *)
(* fault) and the wrapper has acted on it.                                 *)
Answered == resp # None /\ Val(resp).fault = None

(* The exception the latest attempt ended with.                            *)
Yields(e) == handling # <<>> /\ Last(handling) = e

----------------------------------------------------------------------------
(* C1: an authentication failure (status 401 or 403) is never retried: the *)
(* attempt that met it is the last request of the call, the call raises    *)
(* AuthenticationError, and when it is the first attempt the call has sent *)
(* exactly one request and has not slept.                                  *)
C1_AuthNeverRetried ==
    \A i \in DOMAIN handling :
        handling[i] = "AuthenticationError" =>
            /\ pc = "done"
            /\ outcome = Raise("AuthenticationError")
            /\ i = Len(handling)
            /\ requests = i
            /\ (i = 1 => slept = 0)

----------------------------------------------------------------------------
(* A GET call sends at most 1 + 3 requests; after four attempts that       *)
(* failed, none with an authentication failure, it has raised the error of *)
(* the last one; it has a document only from a 200 with a JSON body.       *)
C2_Bounded ==
    IsGet =>
        /\ requests <= GetRetry + 1
        /\ Len(handling) = GetRetry + 1 /\ ~AuthFailed /\ ~cancelled
               => pc = "done" /\ outcome = Raise(Last(handling))
        /\ data # None => pc = "done" /\ resp = Some(Succeeded200)

(* The attempt answered 200 with a JSON body ends the call with that       *)
(* document, and no request follows.                                       *)
C2_FirstSuccessReturns ==
    IsGet /\ pc = "inflight" /\ resp' = Some(Succeeded200)
        => /\ pc' = "done"
           /\ requests' = requests
           /\ data' # None
           /\ (call = "_get" => outcome' = Return(Val(data')))

(* C2: every GET call terminates; it sends at most 1 + 3 requests; the     *)
(* first attempt answered 200 with a JSON body ends the call with that     *)
(* document and no further request; when all four attempts fail with a     *)
(* failure other than an authentication failure, the call raises the error *)
(* of the last attempt.                                                    *)
C2_GetTerminates ==
    /\ []C2_Bounded
    /\ [][C2_FirstSuccessReturns]_vars
    /\ (IsGet /\ pc = "inflight") ~> (pc = "done")

C2_Witness ==
    /\ call = "_get"
    /\ pc = "done"
    /\ requests = 4
    /\ handling = <<"ClientError", "SensiboError", "SensiboError", "ClientError">>
    /\ outcome = Raise("ClientError")

----------------------------------------------------------------------------
(* C3: once the caller cancels a pending call, whether a request is in     *)
(* flight or the call sleeps between attempts, the call has ended with     *)
(* CancelledError: it is in no state from which a request is sent.         *)
C3_CancelStops ==
    cancelled => pc = "done" /\ outcome = Raise("CancelledError")

C3_Witness ==
    /\ cancelled
    /\ call = "_get"
    /\ retry = 2
    /\ requests = 2
    /\ resp = None
    /\ pc = "done"
    /\ outcome = Raise("CancelledError")

----------------------------------------------------------------------------
(* C4: _response yields AuthenticationError for status 401 and 403,        *)
(* SensiboError for any other status outside 200..299 and for a body that  *)
(* is not JSON, and returns the parsed document for every status in        *)
(* 200..299 with a JSON body.                                              *)
C4_Classification ==
    Answered =>
        LET r == Val(resp)
        IN  IF r.status \in {401, 403} THEN Yields("AuthenticationError")
            ELSE IF r.status < 200 \/ r.status > 299 \/ ~r.json
                 THEN Yields("SensiboError")
                 ELSE data # None /\ handling = <<>>

----------------------------------------------------------------------------
(* Vocabulary of the properties of async_get_devices_data *)

Fetched == call = "async_get_devices_data" /\ pc = "done" /\ data # None

(* The call returned a SensiboData.                                        *)
Returned == Fetched /\ outcome # None /\ ~Raised(outcome)

Document == Val(data)

Records == Document.result

Parsed == Val(outcome.value).parsed

(* The payload lists exactly one record, which lacks key k and no other    *)
(* key of a complete record.                                               *)
OnlyRecordOmits(k) ==
    /\ Has(Document, "result")
    /\ Len(Records) = 1
    /\ DOMAIN Records[1] = TopLevelKeys \ {k}

----------------------------------------------------------------------------
(* The exceptions the loop body raises on a record.                        *)
NormalizeErrors == {"KeyError", "ValueError", "AttributeError", "TypeError"}

(* C5: a device-list document without a top-level "result" key makes       *)
(* async_get_devices_data raise SensiboError and return no SensiboData;    *)
(* with the key present the call goes on to normalise the records: it      *)
(* ends with the exception of a record or returns a SensiboData whose raw  *)
(* is the document, the empty one when the list is empty.                  *)
C5_NoResultRaises ==
    Fetched =>
        IF ~Has(Document, "result")
        THEN outcome = Raise("SensiboError")
        ELSE /\ \/ Raised(outcome) /\ Val(outcome.exc) \in NormalizeErrors
                \/ Returned /\ Val(outcome.value).raw = Document
             /\ Records = <<>> => outcome = Return([raw |-> Document, parsed |-> EmptyDict])

C5_Witness == Fetched /\ Document = OkDoc /\ outcome = Raise("SensiboError")

----------------------------------------------------------------------------
(* The place of the last record of the payload with id k.                  *)
LastIndexOf(k) ==
    CHOOSE i \in DOMAIN Records :
        /\ Records[i].id = k
        /\ \A j \in DOMAIN Records : Records[j].id = k => j <= i

(* C6: when every record of the payload normalises, the keys of parsed are *)
(* the ids of the records, each entry's id is its key, records with        *)
(* pairwise distinct ids give as many entries as records, and of the       *)
(* records that share an id the entry is the one built from the last.      *)

C6_ParsedKeyedById ==
    Returned =>
        /\ DOMAIN Parsed = {Records[i].id : i \in DOMAIN Records}
        /\ \A k \in DOMAIN Parsed :
               /\ Parsed[k].id = k
               /\ Parsed[k].serial = Records[LastIndexOf(k)].serial
        /\ (\A i, j \in DOMAIN Records : i # j => Records[i].id # Records[j].id)
               => Cardinality(DOMAIN Parsed) = Len(Records)

C6_Witness ==
    /\ Returned
    /\ Len(Records) = 2
    /\ Records[1].id = "dev2" /\ Records[2].id = "dev2"
    /\ Records[1].serial = "s1" /\ Records[2].serial = "s2"
    /\ DOMAIN Parsed = {"dev2"}

----------------------------------------------------------------------------
(* The keys C7 lists as optional, and the output field of each that the    *)
(* model carries.                                                          *)
OptionalKeys ==
    {"macAddress", "serial", "room", "location", "autoOffEnabled", "autoOffMinutes",
     "antiMoldConfig", "connectionStatus", "remoteCapabilities", "sensorsCalibration",
     "mainMeasurementsSensor", "motionSensors", "pureBoostConfig", "roomIsOccupied",
     "timer", "schedules", "currentlyAvailableFirmwareVersion"}

OutputField ==
    [macAddress |-> "mac", serial |-> "serial", room |-> "name",
     location |-> "location_id", autoOffEnabled |-> "auto_off",
     autoOffMinutes |-> "auto_off_minutes", antiMoldConfig |-> "anti_mold_running",
     sensorsCalibration |-> "calibration_temp", roomIsOccupied |-> "room_occupied",
     currentlyAvailableFirmwareVersion |-> "fw_ver_available"]

(* C7: a record that has id and productModel and omits one other optional  *)
(* key normalises without an exception, and the output field that          *)
(* corresponds to the key is null.                                         *)
C7_MissingOptionalIsNull ==
    \A k \in OptionalKeys :
        Fetched /\ OnlyRecordOmits(k) =>
            /\ Returned
            /\ Has(OutputField, k) => Parsed[Records[1].id][OutputField[k]] = None

----------------------------------------------------------------------------
(* C8: a record that lacks id or productModel makes the normalisation      *)
(* raise MalformedPayloadError, which is neither SensiboError, nor         *)
(* AuthenticationError, nor KeyError.                                      *)
C8_MalformedPayloadError ==
    \A k \in {"id", "productModel"} :
        Fetched /\ OnlyRecordOmits(k) => outcome = Raise("MalformedPayloadError")

----------------------------------------------------------------------------
(* C9: a parsed device whose temp_list has fewer than two values has       *)
(* temp_step = MAX_POSSIBLE_STEP.                                          *)
C9_DegenerateStep ==
    Returned =>
        \A k \in DOMAIN Parsed :
            Len(Parsed[k].temp_list) < 2 => Parsed[k].temp_step = MAX_POSSIBLE_STEP

----------------------------------------------------------------------------
(* Vocabulary of C10 *)

Gaps(l) == {l[i + 1] - l[i] : i \in 1..(Len(l) - 1)}

SmallestGap(l) == CHOOSE g \in Gaps(l) : \A h \in Gaps(l) : g <= h

Ascending(l) == \A i \in 1..(Len(l) - 1) : l[i] < l[i + 1]

(* The record names an active mode whose capability block has a list of    *)
(* temperature values for the unit of the record, or failing that of its   *)
(* control state.                                                          *)
DeclaresTable(dev) ==
    /\ Truthy(dev.remoteCapabilities)
    /\ Has(dev.acState.at, "mode")
    /\ \E unit \in {"C", "F"} :
          /\ IF Has(dev, "temperatureUnit") THEN dev.temperatureUnit = unit
             ELSE /\ Has(dev.acState.at, "temperatureUnit")
                  /\ dev.acState.at.temperatureUnit = unit
          /\ Truthy(GetOpt(Val(dev.remoteCapabilities), "modes"))
          /\ LET modes == Val(Val(dev.remoteCapabilities).modes).at
                 mode == dev.acState.at.mode
             IN  /\ Has(modes, mode)
                 /\ Has(modes[mode], "temperatures")
                 /\ Has(modes[mode].temperatures, unit)
                 /\ Has(modes[mode].temperatures[unit], "values")

(* C10 as stated: a temp_list of at least two ascending values has         *)
(* temp_step equal to the smallest difference of consecutive values, a     *)
(* positive gap; a device whose active mode declares no temperature table  *)
(* for the resolved unit has temp_list [0, 1] and temp_step 1.             *)
C10_StepIsSmallestGap ==
    Returned =>
        \A i \in DOMAIN Records :
            LET device == Parsed[Records[i].id]
                l == device.temp_list
            IN  LastIndexOf(Records[i].id) = i =>
                    /\ Len(l) >= 2 /\ Ascending(l)
                           => device.temp_step = SmallestGap(l) /\ device.temp_step > 0
                    /\ ~DeclaresTable(Records[i])
                           => l = <<0, 1>> /\ device.temp_step = 1

(* C10 as amended: the step is the smallest difference of consecutive      *)
(* values, or MAX_POSSIBLE_STEP when every difference is larger.           *)
C10_StepIsSmallestGapCapped ==
    Returned =>
        \A i \in DOMAIN Records :
            LET device == Parsed[Records[i].id]
                l == device.temp_list
            IN  LastIndexOf(Records[i].id) = i =>
                    /\ Len(l) >= 2 /\ Ascending(l)
                           => /\ device.temp_step = Min(MAX_POSSIBLE_STEP, SmallestGap(l))
                              /\ device.temp_step > 0
                    /\ ~DeclaresTable(Records[i])
                           => l = <<0, 1>> /\ device.temp_step = 1

C10_Witness ==
    /\ Returned
    /\ Len(Records) = 1
    /\ Parsed[Records[1].id].temp_list = <<16, 17, 18, 20>>
    /\ Parsed[Records[1].id].temp_step = 1

----------------------------------------------------------------------------
(* The device built from record i of the payload, when record i is the     *)
(* last one of its id.                                                     *)
DeviceOf(i) == Parsed[Records[i].id]

IsLast(i) == LastIndexOf(Records[i].id) = i

(* C11: of every parsed device pm25 and pm25_pure are never both non-null; *)
(* when the model is "pure", pm25 is null and pm25_pure is the air-quality *)
(* member whose value is measurements.pm25 (2 gives MODERATE; null when    *)
(* the payload has no reading); for any other model pm25 is the raw        *)
(* reading and pm25_pure is null.                                          *)
C11_Pm25Exclusive ==
    Returned =>
        \A i \in DOMAIN Records :
            LET device == DeviceOf(i)
                reading == Get(Records[i].measurements, "pm25")
            IN  IsLast(i) =>
                    /\ device.pm25 = None \/ device.pm25_pure = None
                    /\ IF Records[i].productModel = "pure"
                       THEN /\ device.pm25 = None
                            /\ reading = None => device.pm25_pure = None
                            /\ reading # None =>
                                   /\ device.pm25_pure # None
                                   /\ PureAQI[Val(device.pm25_pure)] = Val(reading)
                                   /\ Val(reading) = 2 => device.pm25_pure = Some("MODERATE")
                       ELSE /\ device.pm25 = reading
                            /\ device.pm25_pure = None

C11_Witness ==
    /\ Returned
    /\ Len(Records) = 1
    /\ Records[1].productModel = "pure"
    /\ Get(Records[1].measurements, "pm25") = Some(2)
    /\ DeviceOf(1).pm25 = None
    /\ DeviceOf(1).pm25_pure = Some("MODERATE")

----------------------------------------------------------------------------
----------------------------------------------------------------------------
(* The record lists no remote-control mode: remoteCapabilities is null or  *)
(* has no "modes" key, or "modes" is null or empty.                        *)
ListsNoMode(dev) ==
    \/ ~Truthy(dev.remoteCapabilities)
    \/ ~Has(Val(dev.remoteCapabilities), "modes")
    \/ Val(dev.remoteCapabilities).modes = None
    \/ Val(Val(dev.remoteCapabilities).modes).keys = <<>>

(* The record is the base record but for its remoteCapabilities.           *)
OnlyCapabilitiesDiffer(dev) ==
    /\ DOMAIN dev = TopLevelKeys
    /\ Omit(dev, "remoteCapabilities") = Omit(Base, "remoteCapabilities")

(* C13: the hvac_modes of every parsed device are the mode keys the record *)
(* declares, in their order, followed by "off"; a record that lists no     *)
(* mode (remoteCapabilities null or without "modes", "modes" null or       *)
(* empty) is parsed, with hvac_modes ["off"].                              *)
C13_OffAlwaysListed ==
    /\ Returned =>
           \A i \in DOMAIN Records :
               LET modes == DeviceOf(i).hvac_modes
               IN  IsLast(i) =>
                       /\ Last(modes) = "off"
                       /\ ~ListsNoMode(Records[i]) =>
                              modes = Append(Val(Val(Records[i].remoteCapabilities).modes).keys,
                                             "off")
    /\ (/\ Fetched /\ Has(Document, "result") /\ Len(Records) = 1
        /\ OnlyCapabilitiesDiffer(Records[1]) /\ ListsNoMode(Records[1]))
           => Returned /\ DeviceOf(1).hvac_modes = <<"off">>

----------------------------------------------------------------------------
(* The four fields of C14: the key of the control state, the key of the    *)
(* mode's capability block, and the two output fields.                     *)
CasedFields ==
    {[state |-> "fanLevel", options |-> "fanLevels", mode |-> "fan_mode",
      translated |-> "fan_modes_translated"],
     [state |-> "swing", options |-> "swing", mode |-> "swing_mode",
      translated |-> "swing_modes_translated"],
     [state |-> "horizontalSwing", options |-> "horizontalSwing",
      mode |-> "horizontal_swing_mode",
      translated |-> "horizontal_swing_modes_translated"],
     [state |-> "light", options |-> "light", mode |-> "light_mode",
      translated |-> "light_modes_translated"]}

(* The output map of device holds the entry Lower(v) -> v.                 *)
Recovers(device, f, v) ==
    /\ device[f.translated] # None
    /\ Has(Val(device[f.translated]), Lower(v))
    /\ Val(device[f.translated])[Lower(v)] = v

(* The options the block of the record's active mode lists for field f,   *)
(* none when the record has no capabilities, no modes, no active mode, or  *)
(* a block without the list.                                               *)
ActiveOptions(dev, f) ==
    IF /\ Truthy(dev.remoteCapabilities)
       /\ Truthy(GetOpt(Val(dev.remoteCapabilities), "modes"))
       /\ Has(dev.acState.at, "mode")
    THEN LET modes == Val(Val(dev.remoteCapabilities).modes).at
             mode == dev.acState.at.mode
         IN  IF Has(modes, mode) /\ Has(modes[mode], f.options)
             THEN modes[mode][f.options] ELSE <<>>
    ELSE <<>>

ActiveModeLists(dev, f, v) == v \in Range(ActiveOptions(dev, f))

----------------------------------------------------------------------------
(* The place of each control-state key in the sorted order of strings.     *)
KeyRank ==
    [fanLevel |-> 1, horizontalSwing |-> 2, light |-> 3, mode |-> 4, on |-> 5,
     swing |-> 6, targetTemperature |-> 7, temperatureUnit |-> 8]

SortedKeys(l) == \A i, j \in DOMAIN l : i < j => KeyRank[l[i]] < KeyRank[l[j]]

(* C15: the active_features of every parsed device are the keys of the     *)
(* record's control state, each once, in sorted order whatever their order *)
(* in the payload.                                                         *)
C15_ActiveFeaturesSorted ==
    Returned =>
        \A i \in DOMAIN Records :
            LET features == DeviceOf(i).active_features
            IN  IsLast(i) =>
                    /\ Range(features) = DOMAIN Records[i].acState.at
                    /\ Len(features) = Cardinality(DOMAIN Records[i].acState.at)
                    /\ SortedKeys(features)

----------------------------------------------------------------------------
(* The source strings of the three timestamps of a record, None when the   *)
(* payload has none.                                                       *)
CleanTimeStr(dev) ==
    LET clean_time == GetOpt(GetOpt(dev, "filtersCleaning"), "lastFiltersCleanTime")
    IN  IF clean_time = None THEN None ELSE GetOpt(Val(clean_time), "time")

TargetTimeStr(dev) == IF dev.timer = None THEN None ELSE GetOpt(Val(dev.timer), "targetTime")

NextTimeStr(schedule) == GetOpt(schedule, "nextTime")

(* Every timestamp string the record holds is in the format of its field,  *)
(* and the record is a complete one whose schedules have every key but     *)
(* perhaps "nextTime".                                                     *)
WellFormedButForAbsentTimes(dev) ==
    /\ DOMAIN dev = TopLevelKeys
    /\ [k \in TopLevelKeys \ {"filtersCleaning", "timer", "schedules"} |-> dev[k]]
           = [k \in TopLevelKeys \ {"filtersCleaning", "timer", "schedules"} |-> Base[k]]
    /\ CleanTimeStr(dev) # None => ~Raised(Strptime(Val(CleanTimeStr(dev)), FormatZ))
    /\ TargetTimeStr(dev) # None => ~Raised(Strptime(Val(TargetTimeStr(dev)), FormatPlain))
    /\ \A j \in DOMAIN dev.schedules :
           /\ \A n \in DOMAIN ScheduleKeys : Has(dev.schedules[j], ScheduleKeys[n])
           /\ NextTimeStr(dev.schedules[j]) # None
                  => ~Raised(Strptime(Val(NextTimeStr(dev.schedules[j])), FormatPlain))

(* C16: a record whose timestamp source strings are absent (missing or     *)
(* null) is parsed without error: filter_last_reset is null without a last *)
(* clean time, timer_time is null without a target time, and a schedule    *)
(* without "nextTime" is built with next_utc null.                         *)
C16_AbsentTimeIsNull ==
    (/\ Fetched /\ Has(Document, "result") /\ Len(Records) = 1
     /\ WellFormedButForAbsentTimes(Records[1]))
        => /\ Returned
           /\ CleanTimeStr(Records[1]) = None => DeviceOf(1).filter_last_reset = None
           /\ TargetTimeStr(Records[1]) = None => DeviceOf(1).timer_time = None
           /\ \A j \in DOMAIN Records[1].schedules :
                  LET schedule == Records[1].schedules[j]
                  IN  /\ Has(DeviceOf(1).schedules, schedule.id)
                      /\ NextTimeStr(schedule) = None
                             => DeviceOf(1).schedules[schedule.id].next_utc = None

----------------------------------------------------------------------------
(* The call is one of _put, _post, _patch, _delete.                        *)
IsMutating == call \in Wrappers \ {"_get"}

(* At most two requests; the second only with the failure of the first in  *)
(* hand and after one sleep of the fixed delay; after a second failure the *)
(* call has ended with that failure.                                       *)
C17_Bounded ==
    IsMutating =>
        /\ requests \in {1, 2}
        /\ requests = 1 => slept = 0 /\ Len(handling) <= 1
        /\ requests = 2 => slept = MutateSleep
        /\ Len(handling) = 2 => pc = "done" /\ outcome = Raise(Last(handling))
        /\ pc = "sleeping" => requests = 1 /\ Len(handling) = 1

(* A request is sent by Start or, with none in flight, at the end of the   *)
(* sleep that follows a failure; a first attempt answered 200 with a JSON  *)
(* body ends the call with the document and one request; a second attempt  *)
(* that fails ends the call with no further request.                       *)
C17_Steps ==
    /\ (IsMutating /\ requests' = requests + 1)
           => /\ pc = "sleeping" /\ pc' = "inflight"
              /\ handling # <<>>
              /\ slept' = slept + MutateSleep
    /\ (IsMutating /\ pc = "inflight" /\ requests = 1 /\ resp' = Some(Succeeded200))
           => /\ pc' = "done" /\ requests' = 1
              /\ outcome' = Return(Val(data'))
    /\ (IsMutating /\ pc = "inflight" /\ requests = 2 /\ call' = call)
           => pc' = "done" /\ requests' = 2

(* C17: a _put, _post, _patch or _delete call started with retry=False     *)
(* sends at most 2 requests, the second only after the first has failed    *)
(* and the delay has elapsed, with never two in flight; a first-attempt    *)
(* success sends exactly 1 request; a failure of the second attempt is     *)
(* raised to the caller with no third request.                             *)
C17_MutatingRetry == []C17_Bounded /\ [][C17_Steps]_vars

C17_Witness ==
    /\ IsMutating
    /\ pc = "done"
    /\ requests = 2
    /\ slept = MutateSleep
    /\ Len(handling) = 2
    /\ outcome = Raise(handling[2])

----------------------------------------------------------------------------
(* The places of the records of the payload that fail normalisation.       *)
BadRecords == {i \in DOMAIN Records : Raised(Normalize(Records[i]))}

(* The document is structurally invalid: no "result", or a record that     *)
(* fails.                                                                  *)
Invalid == ~Has(Document, "result") \/ BadRecords # {}

(* An invalid document ends the call with an exception and no SensiboData, *)
(* the exception of the first record that fails when there is a "result".  *)
C18_RaisesWhole ==
    (Fetched /\ Invalid) =>
        /\ Raised(outcome) /\ outcome.value = None
        /\ Has(Document, "result") =>
               \E i \in BadRecords :
                   /\ \A j \in BadRecords : i <= j
                   /\ outcome = Normalize(Records[i])

(* The step that delivers the document ends the call, with the requests    *)
(* and the sleeps it had; nothing is sent after it.                        *)
C18_Steps ==
    /\ (call = "async_get_devices_data" /\ pc = "inflight" /\ data' # None)
           => pc' = "done" /\ requests' = requests /\ slept' = slept
    /\ (Fetched /\ call' = call) => requests' = requests /\ pc' = "done"

(* C18: once the GET has returned a parsed document, a document without    *)
(* "result" or with a record that fails normalisation makes                *)
(* async_get_devices_data raise at once, with no further request and no    *)
(* SensiboData, not even for the records before the failing one.           *)
C18_InvalidNotRetried == []C18_RaisesWhole /\ [][C18_Steps]_vars

(* A good record followed by one without "id": KeyError after one request. *)
C18_Witness ==
    /\ Fetched
    /\ Has(Document, "result")
    /\ Len(Records) = 2
    /\ BadRecords = {2}
    /\ requests = 1
    /\ outcome = Raise("KeyError")

----------------------------------------------------------------------------
(* C19: of a device whose antiMoldConfig is not null, anti_mold_running is *)
(* the config's running flag, anti_mold_enabled the config's enabled flag  *)
(* (so the two outputs differ when the two flags differ) and               *)
(* anti_mold_fan_time the config's fan run time; with a null               *)
(* antiMoldConfig the three are null.                                      *)
C19_AntiMoldDistinct ==
    Returned =>
        \A i \in DOMAIN Records :
            LET device == DeviceOf(i)
                anti_mold == Records[i].antiMoldConfig
            IN  IsLast(i) =>
                    IF anti_mold # None
                    THEN /\ device.anti_mold_running = Get(Val(anti_mold), "anti_mold_running")
                         /\ device.anti_mold_enabled = Get(Val(anti_mold), "enabled")
                         /\ device.anti_mold_fan_time = Get(Val(anti_mold), "fan_time")
                    ELSE /\ device.anti_mold_running = None
                         /\ device.anti_mold_enabled = None
                         /\ device.anti_mold_fan_time = None

====
